---- MODULE Spec2Model ----
(***************************************************************************)
(* Model of Documentation/sphinx/ditaa.py: the "ditaa" directive           *)
(* (Ditaa.run), the render-and-cache routine (render_ditaa) and the tree   *)
(* resolution hook (on_doctree_resolved).                                  *)
(*                                                                         *)
(* Python strings are sequences of one-character tokens, so that slicing   *)
(* (k[:2]), strip(), join() and concatenation are computed as the code     *)
(* computes them.  Python's None is the one-element sequence <<"None">>,   *)
(* which is no string over one-character tokens.                           *)
(***************************************************************************)
EXTENDS Integers, Sequences, FiniteSets, TLC

VARIABLES
    document,   \* the tree the parser left for the document under resolution
    pc,         \* position of the build: "parse", "resolve", the steps of render_ditaa, "done", "failed"
    doctree,    \* the document's nodes, in document order
    reports,    \* reporter.warning(...) messages issued by Ditaa.run
    deps,       \* env.note_dependency(...) registrations
    opened,     \* files Ditaa.run tried to open with codecs.open
    lastRun,    \* the last Ditaa.run invocation: its inputs and what it returned
    nruns,      \* how many directives were run
    idx,        \* position in doctree of the node on_doctree_resolved is handling
    fs,         \* files of the output tree: path -> bytes
    dirs,       \* directories that exist
    cwd,        \* os.getcwd() of the build process
    frame,      \* locals of the render_ditaa call in progress
    warned,     \* app.builder._ditaa_warned_dot
    warnings,   \* app.builder.warn(...) messages of this build process
    proc,       \* the Popen object p and what the renderer did
    call,       \* the render_ditaa call in progress or last completed
    prev,       \* output path -> the last completed call before `call` for that path
    error,      \* the exception that ended the build
    build       \* number of the build process

vars == <<document, pc, doctree, reports, deps, opened, lastRun, nruns, idx, fs, dirs, cwd,
          frame, warned, warnings, proc, call, prev, error, build>>

runVars == <<document, doctree, reports, deps, opened, lastRun, nruns>>
renderVars == <<idx, fs, dirs, cwd, frame, warned, warnings, proc, call, prev, error, build>>

None == <<"None">>

\* ---- bounds -------------------------------------------------------------
MaxDirectives == 1      \* directives run in one document (SpecRun)
MaxLines == 1           \* content lines of one directive
MaxNodes == 2           \* directives of the document being resolved (Spec)
MaxBuilds == 2          \* build processes run one after the other over the same output tree

\* ---- strings ------------------------------------------------------------
Whitespace == {" ", "\n", "\t"}

RECURSIVE LStrip(_)
LStrip(s) == IF s # <<>> /\ Head(s) \in Whitespace THEN LStrip(Tail(s)) ELSE s

RECURSIVE RStrip(_)
RStrip(s) ==
    IF s # <<>> /\ s[Len(s)] \in Whitespace THEN RStrip(SubSeq(s, 1, Len(s) - 1)) ELSE s

\* str.strip()
Strip(s) == RStrip(LStrip(s))

\* sep.join(parts)
RECURSIVE Join(_, _)
Join(sep, parts) ==
    IF parts = <<>> THEN <<>>
    ELSE IF Len(parts) = 1 THEN parts[1]
    ELSE parts[1] \o sep \o Join(sep, Tail(parts))

\* s[:n]
Slice(s, n) == SubSeq(s, 1, IF Len(s) < n THEN Len(s) ELSE n)

\* ---- the directive: option_spec ------------------------------------------
OptHtml == <<"-", "-", "h", "t", "m", "l">>
OptScale == <<"-", "-", "s", "c", "a", "l", "e">>
ImgScale == <<"s", "c", "a", "l", "e">>

\* option_spec: key -> converter (a sample of the declared keys: a flag-only and a
\* value-taking renderer option, and the image option named like the latter)
option_spec ==
    (OptHtml :> "flag") @@ (OptScale :> "unchanged") @@ (ImgScale :> "unchanged")

OptionValues == {<<"2">>}

\* what the converter of key k can hand to run(): directives.flag gives None,
\* directives.unchanged gives the text
ConvertedValues(k) == IF option_spec[k] = "flag" THEN {None} ELSE OptionValues

RECURSIVE SeqsUpTo(_, _)
SeqsUpTo(S, n) ==
    IF n = 0 THEN {<<>>}
    ELSE LET shorter == SeqsUpTo(S, n - 1)
         IN  shorter \cup {Append(s, x) : s \in {t \in shorter : Len(t) = n - 1}, x \in S}

OptionItem == UNION {{<<k, v>> : v \in ConvertedValues(k)} : k \in DOMAIN option_spec}

\* self.options.items(): key/value pairs with distinct keys, in the dict's order
OptionItems ==
    {o \in SeqsUpTo(OptionItem, Cardinality(DOMAIN option_spec)) :
        \A i, j \in 1..Len(o) : i # j => o[i][1] # o[j][1]}

\* ---- the directive: source files ------------------------------------------
\* self.arguments, self.content and self.options are the inputs of run(); how many
\* arguments the host parser admits (required_arguments, optional_arguments) is
\* decided by the caller of run(), outside this file.
FileGood == <<"g">>
FileEmpty == <<"e">>
FileBlank == <<"b">>
FileMissing == <<"m">>
FileNames == {FileGood, FileEmpty, FileBlank, FileMissing}

\* env.relfn2path(arg): (name relative to the source dir, absolute name)
relfn2path(arg) == [rel |-> <<"doc", arg>>, abs |-> <<"srcdir", "doc", arg>>]

\* the readable files of the source tree and their text
SrcFiles ==
    (relfn2path(FileGood).abs :> <<"A", "-", ">", "B">>) @@
    (relfn2path(FileEmpty).abs :> <<>>) @@
    (relfn2path(FileBlank).abs :> <<" ", "\n">>)

ContentLine == {<<" ">>, <<"A">>}
Contents == SeqsUpTo(ContentLine, MaxLines)
Arguments == {<<>>} \cup {<<f>> : f \in FileNames}

WarnBoth == "Ditaa directive cannot have both content and a filename argument"
WarnNotFound == "External Ditaa file not found or reading it failed"
WarnNoContent == "Ignoring ditaa directive without content."

system_message(text) == [type |-> "system_message", text |-> text]

\* the value appended without the test for None
RECURSIVE RendererOptionsAlwaysValue(_)
RendererOptionsAlwaysValue(items) ==
    IF items = <<>> THEN <<>>
    ELSE LET k == items[1][1]
             v == items[1][2]
         IN  (IF Slice(k, 2) = <<"-", "-">> THEN <<k, v>> ELSE <<>>)
                 \o RendererOptionsAlwaysValue(Tail(items))

\* node['options']: for k, v in items: k[:2] == '--' -> append k, and v if not None
RECURSIVE RendererOptions(_)
RendererOptions(items) ==
    IF items = <<>> THEN <<>>
    ELSE LET k == items[1][1]
             v == items[1][2]
         IN  (IF Slice(k, 2) = <<"-", "-">>
              THEN (IF v # None THEN <<k, v>> ELSE <<k>>)
              ELSE <<>>) \o RendererOptions(Tail(items))

\* node['img_options']: every other key with its value
ImgOptions(items) ==
    LET keys == {items[i][1] : i \in {j \in 1..Len(items) : Slice(items[j][1], 2) # <<"-", "-">>}}
    IN  [k \in keys |-> items[CHOOSE i \in 1..Len(items) : items[i][1] = k][2]]

ditaaNode(dotcode, items) ==
    [type |-> "ditaa", code |-> dotcode,
     options |-> RendererOptions(items), img_options |-> ImgOptions(items)]

\* the file resolved and noted as a dependency before the test for content
RunResultDependencyFirst(arguments, content, items) ==
    IF arguments # <<>>
    THEN LET fn == relfn2path(arguments[1])
         IN  IF content # <<>>
             THEN [nodes |-> <<system_message(WarnBoth)>>, deps |-> {fn.rel}, opened |-> {}]
             ELSE IF fn.abs \in DOMAIN SrcFiles
                  THEN [nodes |-> <<ditaaNode(SrcFiles[fn.abs], items)>>,
                        deps |-> {fn.rel}, opened |-> {fn.abs}]
                  ELSE [nodes |-> <<system_message(WarnNotFound)>>,
                        deps |-> {fn.rel}, opened |-> {fn.abs}]
    ELSE LET dotcode == Join(<<"\n">>, content)
         IN  IF Strip(dotcode) = <<>>
             THEN [nodes |-> <<system_message(WarnNoContent)>>, deps |-> {}, opened |-> {}]
             ELSE [nodes |-> <<ditaaNode(dotcode, items)>>, deps |-> {}, opened |-> {}]

\* Ditaa.run: what it returns and what it touches on the way
RunResult(arguments, content, items) ==
    IF arguments # <<>>
    THEN IF content # <<>>
         THEN [nodes |-> <<system_message(WarnBoth)>>, deps |-> {}, opened |-> {}]
         ELSE LET fn == relfn2path(arguments[1])
              IN  IF fn.abs \in DOMAIN SrcFiles
                  THEN [nodes |-> <<ditaaNode(SrcFiles[fn.abs], items)>>,
                        deps |-> {fn.rel}, opened |-> {fn.abs}]
                  ELSE [nodes |-> <<system_message(WarnNotFound)>>,
                        deps |-> {fn.rel}, opened |-> {fn.abs}]
    ELSE LET dotcode == Join(<<"\n">>, content)
         IN  IF Strip(dotcode) = <<>>
             THEN [nodes |-> <<system_message(WarnNoContent)>>, deps |-> {}, opened |-> {}]
             ELSE [nodes |-> <<ditaaNode(dotcode, items)>>, deps |-> {}, opened |-> {}]

NoRun == [arguments |-> <<>>, content |-> <<>>, items |-> <<>>, nodes |-> <<>>,
          deps |-> {}, opened |-> {}, ran |-> FALSE]

\* one directive of the document is parsed: the returned nodes go into the tree
Run(arguments, content, items) ==
    /\ pc = "parse"
    /\ nruns < MaxDirectives
    /\ LET r == RunResult(arguments, content, items)
       IN  /\ doctree' = doctree \o r.nodes
           /\ reports' = reports \o
                   SelectSeq([i \in 1..Len(r.nodes) |->
                                IF r.nodes[i].type = "system_message"
                                THEN r.nodes[i].text ELSE ""], LAMBDA t : t # "")
           /\ deps' = deps \cup r.deps
           /\ opened' = opened \cup r.opened
           /\ lastRun' = [arguments |-> arguments, content |-> content, items |-> items,
                          nodes |-> r.nodes, deps |-> r.deps, opened |-> r.opened,
                          ran |-> TRUE]
    /\ nruns' = nruns + 1
    /\ UNCHANGED <<document, pc, renderVars>>

\* ---- configuration (setup) -------------------------------------------------
\* config.ditaa: SPHINX_DITAA_CMD, or 'ditaa'
config_ditaa == <<"d", "i", "t", "a", "a">>
\* config.ditaa_args: SPHINX_DITAA_ARG split at ':' (here "-E"), or []
config_ditaa_args == << <<"-", "E">> >>

\* app.builder.outdir, app.builder.imagedir, the directory the build starts in
outdir == "out"
imagedir == "_images"
StartDir == <<"work", "doc">>
docname == "index"

\* path.join(outdir, imagedir): a directory is the tuple of its components
ImgDir == <<outdir, imagedir>>
\* path.join(dir, name)
PathJoin(dir, name) == Append(dir, name)
\* path.dirname(file)
DirName(file) == SubSeq(file, 1, Len(file) - 1)
\* sphinx.util.relative_uri(base, to), kept symbolic
relative_uri(base, to) == <<"relative_uri", base, to>>

\* ---- render_ditaa: names ---------------------------------------------------
\* str.encode('utf-8'): one byte per ASCII character, two for U+00E9
Utf8Char(c) == IF c = "U+E9" THEN <<"xC3", "xA9">> ELSE <<c>>

RECURSIVE EncodeUtf8(_)
EncodeUtf8(s) == IF s = <<>> THEN <<>> ELSE Utf8Char(Head(s)) \o EncodeUtf8(Tail(s))

\* str(b) of a bytes object
StrBytes(b) == <<"b", "'">> \o b \o <<"'">>

\* str(l) of a list of strings
StrList(l) ==
    <<"[">> \o Join(<<",", " ">>, [i \in 1..Len(l) |-> <<"'">> \o l[i] \o <<"'">>]) \o <<"]">>

\* hashkey = str(code) + str(options) + str(config.ditaa) + str(config.ditaa_args)
HashKey(code, options) ==
    StrBytes(code) \o StrList(options) \o config_ditaa \o StrList(config_ditaa_args)

\* sha(hashkey.encode('utf-8')).hexdigest(): the digest is not computed; it is
\* kept as an injective image of the hashed bytes (no two inputs collide)
HexDigest(s) == <<"sha1", ":">> \o EncodeUtf8(s)

\* '%s-%s.%s' % (prefix, digest, ext)
FileName(prefix, digest, ext) == prefix \o <<"-">> \o digest \o <<".">> \o ext

Prefix == <<"d", "i", "t", "a", "a">>
InFName(code, options) ==
    FileName(Prefix, HexDigest(HashKey(code, options)), <<"d", "i", "t", "a", "a">>)
OutFName(code, options) ==
    FileName(Prefix, HexDigest(HashKey(code, options)), <<"p", "n", "g">>)
InFullFn(code, options) == PathJoin(ImgDir, InFName(code, options))
OutFullFn(code, options) == PathJoin(ImgDir, OutFName(code, options))
OutRelFn(code, options) ==
    PathJoin(relative_uri(docname, imagedir), OutFName(code, options))

\* path.isfile(p)
IsFile(files, p) == p \in DOMAIN files

\* a cache check that never finds the file
CacheHitNever(files, outfullfn) == FALSE

\* a cache check on the bare file name instead of the full path
CacheHitBareName(files, outfullfn) == IsFile(files, <<outfullfn[Len(outfullfn)]>>)

\* line 137: the cache check
CacheHit(files, outfullfn) == IsFile(files, outfullfn)

\* ---- the renderer process ---------------------------------------------------
\* what the renderer writes for an input: its bytes are opaque
Png(bytes) == <<"PNG">> \o bytes

CommOutcomes == {"ok", "EPIPE"}
ExitCodes == {0, 2}
StdoutTexts == {"usage"}
StderrTexts == {"", "bad syntax"}

NoProc == [spawned |-> FALSE, argv |-> <<>>, cwd |-> <<>>, rc |-> -1,
           out |-> "", err |-> ""]
NoFrame == [code |-> <<>>, options |-> <<>>, infname |-> <<>>, outfname |-> <<>>,
            infullfn |-> <<>>, outfullfn |-> <<>>, outrelfn |-> <<>>,
            ditaa_args |-> <<>>, currpath |-> <<>>]
NoResult == <<>>
NoError == [type |-> "", msg |-> <<>>]
NoCall == [key |-> <<>>, code |-> <<>>, options |-> <<>>, hit |-> FALSE, done |-> FALSE,
           attempts |-> 0, spawned |-> 0, argv |-> <<>>, launchCwd |-> <<>>,
           inputSeen |-> None, dirSeen |-> FALSE, result |-> NoResult,
           raised |-> "", fileAfter |-> FALSE, build |-> 0]

\* the two streams in each other's place
DitaaErrorSwapped(stderr, stdout) ==
    [type |-> "DitaaError",
     msg |-> <<"ditaa exited with error:\n[stderr]\n", stdout, "\n[stdout]\n", stderr>>]

\* DitaaError('ditaa exited with error:\n[stderr]\n%s\n[stdout]\n%s' % (stderr, stdout))
DitaaError(stderr, stdout) ==
    [type |-> "DitaaError",
     msg |-> <<"ditaa exited with error:\n[stderr]\n", stderr, "\n[stdout]\n", stdout>>]

\* ---- on_doctree_resolved ------------------------------------------------------
\* nodes.image(uri=relfn, candidates={'*': outfn}, **node['img_options'])
image(relfn, outfn, img_options) ==
    [type |-> "image", uri |-> relfn, candidates |-> [star |-> outfn],
     attrs |-> img_options]

\* doctree.traverse(ditaa): the next ditaa node after position i, or 0
NextDitaa(tree, i) ==
    LET later == {j \in (i + 1)..Len(tree) : tree[j].type = "ditaa"}
    IN  IF later = {} THEN 0 ELSE CHOOSE j \in later : \A k \in later : j <= k

\* node.parent.replace(node, image) after render_ditaa returned (relfn, outfn)
Replace(tree, i, result) ==
    [tree EXCEPT ![i] = image(result[1], result[2], tree[i].img_options)]

\* the call in progress becomes the last completed call for its output path
Remember == IF call.done THEN (call.key :> call) @@ prev ELSE prev

\* The steps of render_ditaa follow.  ensuredir() and the write of the input file are
\* taken to succeed in a directory that exists (a writable output tree); the log line
\* printed under config.ditaa_log_enable changes no state and is left out.

\* lines 193-195 and 124-138: the loop takes the next ditaa node and calls
\* render_ditaa, which computes the names and returns at once on a cache hit
ResolveNode ==
    /\ pc = "resolve"
    /\ NextDitaa(doctree, idx) # 0
    /\ LET j == NextDitaa(doctree, idx)
           node == doctree[j]
           code == EncodeUtf8(node.code)
           outfullfn == OutFullFn(code, node.options)
           outrelfn == OutRelFn(code, node.options)
           started == [NoCall EXCEPT !.key = outfullfn, !.code = code,
                                     !.options = node.options, !.build = build]
       IN  /\ idx' = j
           /\ prev' = Remember
           /\ IF CacheHit(fs, outfullfn)
              THEN /\ call' = [started EXCEPT !.hit = TRUE, !.done = TRUE,
                                              !.result = <<outrelfn, outfullfn>>,
                                              !.fileAfter = TRUE]
                   /\ doctree' = Replace(doctree, j, <<outrelfn, outfullfn>>)
                   /\ frame' = NoFrame
                   /\ pc' = "resolve"
              ELSE /\ call' = started
                   /\ doctree' = doctree
                   /\ frame' = [NoFrame EXCEPT !.code = code, !.options = node.options,
                                    !.infname = InFName(code, node.options),
                                    !.outfname = OutFName(code, node.options),
                                    !.infullfn = InFullFn(code, node.options),
                                    !.outfullfn = outfullfn, !.outrelfn = outrelfn]
                   /\ pc' = "ensuredir"
    /\ proc' = NoProc
    /\ UNCHANGED <<document, reports, deps, opened, lastRun, nruns, fs, dirs, cwd,
                   warned, warnings, error, build>>

\* line 193: no ditaa node is left, the handler returns
ResolveDone ==
    /\ pc = "resolve"
    /\ NextDitaa(doctree, idx) = 0
    /\ pc' = "done"
    /\ UNCHANGED <<runVars, renderVars>>

\* line 140: ensuredir(path.dirname(outfullfn))
EnsureDir ==
    /\ pc = "ensuredir"
    /\ dirs' = dirs \cup {DirName(frame.outfullfn)}
    /\ pc' = "write"
    /\ UNCHANGED <<runVars, idx, fs, cwd, frame, warned, warnings, proc, call, prev,
                   error, build>>

\* the per-directive options ahead of the executable's global arguments
DitaaArgsOptionsFirst(options, infname, outfname) ==
    <<config_ditaa>> \o options \o config_ditaa_args \o <<infname, outfname>>

\* lines 142-145: the command line
DitaaArgs(options, infname, outfname) ==
    <<config_ditaa>> \o config_ditaa_args \o options \o <<infname, outfname>>

\* lines 142-148: build the command line, write the markup bytes to the input file
\* (open() fails when the directory is missing)
WriteInput ==
    /\ pc = "write"
    /\ IF DirName(frame.infullfn) \in dirs
       THEN /\ fs' = (frame.infullfn :> frame.code) @@ fs
            /\ frame' = [frame EXCEPT
                            !.ditaa_args = DitaaArgs(frame.options, frame.infname,
                                                     frame.outfname)]
            /\ pc' = "chdir"
            /\ UNCHANGED <<call, error>>
       ELSE /\ error' = [type |-> "IOError", msg |-> <<>>]
            /\ call' = [call EXCEPT !.done = TRUE, !.raised = "IOError"]
            /\ pc' = "failed"
            /\ UNCHANGED <<fs, frame>>
    /\ UNCHANGED <<runVars, idx, dirs, cwd, warned, warnings, proc, prev, build>>

\* lines 149-150: currpath = os.getcwd(); os.chdir(the image directory)
Chdir ==
    /\ pc = "chdir"
    /\ IF ImgDir \in dirs
       THEN /\ frame' = [frame EXCEPT !.currpath = cwd]
            /\ cwd' = ImgDir
            /\ pc' = "popen"
            /\ UNCHANGED <<call, error>>
       ELSE /\ error' = [type |-> "OSError", msg |-> <<>>]
            /\ call' = [call EXCEPT !.done = TRUE, !.raised = "OSError"]
            /\ pc' = "failed"
            /\ UNCHANGED <<frame, cwd>>
    /\ UNCHANGED <<runVars, idx, fs, dirs, warned, warnings, proc, prev, build>>

\* what a Popen(ditaa_args, ...) attempt leaves in the record of the call: the
\* command line, the directory it ran in, and the input file as the child finds it
Attempted(c) ==
    [c EXCEPT !.attempts = c.attempts + 1,
              !.argv = frame.ditaa_args,
              !.launchCwd = cwd,
              !.dirSeen = (ImgDir \in dirs),
              !.inputSeen =
                  LET name == frame.ditaa_args[Len(frame.ditaa_args) - 1]
                  IN  IF IsFile(fs, PathJoin(cwd, name))
                      THEN fs[PathJoin(cwd, name)] ELSE None]

\* lines 152-156 and 167: the renderer is started; the build goes back to currpath
PopenSpawn ==
    /\ pc = "popen"
    /\ call' = [Attempted(call) EXCEPT !.spawned = call.spawned + 1]
    /\ proc' = [NoProc EXCEPT !.spawned = TRUE, !.argv = frame.ditaa_args, !.cwd = cwd]
    /\ cwd' = frame.currpath
    /\ pc' = "communicate"
    /\ UNCHANGED <<runVars, idx, fs, dirs, frame, warned, warnings, prev, error, build>>

WarnCannotRun == "ditaa command cannot be run (needed for ditaa output), check the ditaa setting"

\* lines 157-165: Popen raised OSError with errno ENOENT: warn, set the flag, go back
\* to currpath, return (None, None); lines 195-199: the caller builds the image node
PopenENOENT ==
    /\ pc = "popen"
    /\ warnings' = Append(warnings, WarnCannotRun)
    /\ warned' = TRUE
    /\ cwd' = frame.currpath
    /\ call' = [Attempted(call) EXCEPT !.done = TRUE, !.result = <<None, None>>,
                                       !.fileAfter = IsFile(fs, frame.outfullfn)]
    /\ doctree' = Replace(doctree, idx, <<None, None>>)
    /\ frame' = NoFrame
    /\ pc' = "resolve"
    /\ UNCHANGED <<document, reports, deps, opened, lastRun, nruns, idx, fs, dirs,
                   proc, prev, error, build>>

\* lines 157-159: Popen raised OSError with another errno (EACCES, ENOEXEC, ...):
\* re-raised out of render_ditaa and out of on_doctree_resolved
PopenOSError ==
    /\ pc = "popen"
    /\ call' = [Attempted(call) EXCEPT !.done = TRUE, !.raised = "OSError",
                                       !.fileAfter = IsFile(fs, frame.outfullfn)]
    /\ error' = [type |-> "OSError", msg |-> <<>>]
    /\ pc' = "failed"
    /\ UNCHANGED <<runVars, idx, fs, dirs, cwd, frame, warned, warnings, proc, prev, build>>

\* the renderer, started in proc.cwd with the two file names last on its command
\* line, may write its output file before it exits
RendererRan(wrote) ==
    LET inpath == PathJoin(proc.cwd, proc.argv[Len(proc.argv) - 1])
        outpath == PathJoin(proc.cwd, proc.argv[Len(proc.argv)])
    IN  IF wrote /\ IsFile(fs, inpath)
        THEN (outpath :> Png(fs[inpath])) @@ fs
        ELSE fs

\* lines 168-189 and 196-199: communicate() succeeds, or fails with EPIPE and the
\* streams are read directly and the process waited for.  A nonzero exit status
\* raises DitaaError with the two captured streams, which leaves
\* on_doctree_resolved; otherwise render_ditaa returns the pair and the caller
\* replaces the node
Communicate(comm, rc, out, err, wrote) ==
    /\ pc = "communicate"
    /\ comm \in CommOutcomes
    /\ fs' = RendererRan(wrote)
    /\ proc' = [proc EXCEPT !.rc = rc, !.out = out, !.err = err]
    /\ LET stdout == out
           stderr == err
       IN  IF rc # 0
           THEN /\ error' = DitaaError(stderr, stdout)
                /\ call' = [call EXCEPT !.done = TRUE, !.raised = "DitaaError",
                                        !.fileAfter = IsFile(fs', frame.outfullfn)]
                /\ pc' = "failed"
                /\ UNCHANGED <<doctree, frame>>
           ELSE /\ call' = [call EXCEPT !.done = TRUE,
                                        !.result = <<frame.outrelfn, frame.outfullfn>>,
                                        !.fileAfter = IsFile(fs', frame.outfullfn)]
                /\ doctree' = Replace(doctree, idx, <<frame.outrelfn, frame.outfullfn>>)
                /\ frame' = NoFrame
                /\ pc' = "resolve"
                /\ error' = error
    /\ UNCHANGED <<document, reports, deps, opened, lastRun, nruns, idx, dirs, cwd,
                   warned, warnings, prev, build>>

\* the exceptions communicate() can leave render_ditaa with: an OSError whose errno
\* is not EPIPE is re-raised (lines 173-175); an IOError is an OSError and re-raised
\* the same way where the two classes are one, and reaches line 178, where EINVAL
\* is an unbound name, where they are not
CommunicateRaises == {"OSError", "IOError", "NameError"}

\* lines 172-180: communicate() fails otherwise than with EPIPE
CommunicateRaise(exc, wrote) ==
    /\ pc = "communicate"
    /\ exc \in CommunicateRaises
    /\ fs' = RendererRan(wrote)
    /\ error' = [type |-> exc, msg |-> <<>>]
    /\ call' = [call EXCEPT !.done = TRUE, !.raised = exc,
                            !.fileAfter = IsFile(fs', frame.outfullfn)]
    /\ pc' = "failed"
    /\ UNCHANGED <<runVars, idx, dirs, cwd, frame, warned, warnings, proc, prev, build>>

\* ---- documents ---------------------------------------------------------------------
\* directives of a document under resolution: inline markup without options, the same
\* markup with a renderer flag and an image option, and a blank directive
SampleDirectives ==
    { [arguments |-> <<>>, content |-> << <<"A">> >>, items |-> <<>>],
      [arguments |-> <<>>, content |-> << <<"A">> >>,
       items |-> << <<OptHtml, None>>, <<ImgScale, <<"2">>>> >>],
      [arguments |-> <<>>, content |-> << <<" ">> >>, items |-> <<>>] }

RECURSIVE Parsed(_)
Parsed(ds) ==
    IF ds = <<>> THEN <<>>
    ELSE RunResult(ds[1].arguments, ds[1].content, ds[1].items).nodes \o Parsed(Tail(ds))

\* the trees the parser leaves for documents of 1..MaxNodes sample directives
ParsedTrees == {Parsed(ds) : ds \in SeqsUpTo(SampleDirectives, MaxNodes) \ {<<>>}}

\* a new build process runs over the output tree the earlier ones left: its own
\* builder (flag, warnings), its own working directory, the document parsed again
Rebuild ==
    /\ pc \in {"done", "failed"}
    /\ build < MaxBuilds
    /\ build' = build + 1
    /\ doctree' = document
    /\ idx' = 0
    /\ cwd' = StartDir
    /\ warned' = FALSE
    /\ warnings' = <<>>
    /\ error' = NoError
    /\ frame' = NoFrame
    /\ proc' = NoProc
    /\ pc' = "resolve"
    /\ UNCHANGED <<document, reports, deps, opened, lastRun, nruns, fs, dirs, call, prev>>

\* ---- specifications ------------------------------------------------------------------
InitRender ==
    /\ idx = 0
    /\ fs = <<>>
    /\ dirs \in {{StartDir}, {StartDir, ImgDir}}
    /\ cwd = StartDir
    /\ frame = NoFrame
    /\ warned = FALSE
    /\ warnings = <<>>
    /\ proc = NoProc
    /\ call = NoCall
    /\ prev = <<>>
    /\ error = NoError
    /\ build = 1

\* the 'doctree-read' event of a parsed document
Init ==
    /\ pc = "resolve"
    /\ document \in ParsedTrees
    /\ doctree = document
    /\ reports = <<>>
    /\ deps = {}
    /\ opened = {}
    /\ lastRun = NoRun
    /\ nruns = 0
    /\ InitRender

Next ==
    \/ ResolveNode
    \/ ResolveDone
    \/ EnsureDir
    \/ WriteInput
    \/ Chdir
    \/ PopenSpawn
    \/ PopenENOENT
    \/ PopenOSError
    \/ \E comm \in CommOutcomes, rc \in ExitCodes, out \in StdoutTexts,
          err \in StderrTexts, wrote \in BOOLEAN :
          Communicate(comm, rc, out, err, wrote)
    \/ \E exc \in CommunicateRaises, wrote \in BOOLEAN : CommunicateRaise(exc, wrote)
    \/ Rebuild

Spec == Init /\ [][Next]_vars

\* the parser alone: the directives of one document are run one after the other
InitRun ==
    /\ pc = "parse"
    /\ document = <<>>
    /\ doctree = <<>>
    /\ reports = <<>>
    /\ deps = {}
    /\ opened = {}
    /\ lastRun = NoRun
    /\ nruns = 0
    /\ InitRender
    /\ dirs = {StartDir}

NextRun ==
    \E arguments \in Arguments, content \in Contents, items \in OptionItems :
        Run(arguments, content, items)

SpecRun == InitRun /\ [][NextRun]_vars

\* ---- claims: the render cache ----------------------------------------------------------
\* the (relative URI, absolute path) pair render_ditaa computes for the call
CallPaths == <<OutRelFn(call.code, call.options), OutFullFn(call.code, call.options)>>

\* the call before `call` for the same markup, options and configuration
HasEarlier == call.key \in DOMAIN prev
Earlier == prev[call.key]

C2_WarnedOnce == Len(warnings) <= 1

\* C3: an image node stands in the tree only for a render that returned a real
\* (relative URI, absolute path) pair, never for the (None, None) of a missing executable.
C3_NoImageWithoutRender ==
    \A i \in 1..Len(doctree) :
        doctree[i].type = "image" =>
            doctree[i].uri # None /\ doctree[i].candidates.star # None

\* C4: when the renderer was communicated with (normally or through the broken-pipe
\* fallback) and exited with a nonzero status, the build has failed with a DitaaError
\* that carries the renderer's stderr and stdout, the node being rendered is still a
\* ditaa node and no later node was turned into an image.
C4_NonzeroExitIsFatal ==
    (proc.spawned /\ proc.rc \notin {-1, 0}) =>
        /\ pc = "failed"
        /\ error.type = "DitaaError"
        /\ error.msg[2] = proc.err
        /\ error.msg[4] = proc.out
        /\ call.raised = "DitaaError" /\ call.result = NoResult
        /\ doctree[idx].type = "ditaa"
        /\ \A j \in (idx + 1)..Len(doctree) : doctree[j].type # "image"

\* C4 witness: the renderer printed "bad syntax" and exited with status 2 while a
\* later ditaa node was still waiting.
C4_Witness ==
    /\ proc.spawned /\ proc.rc = 2 /\ proc.err = "bad syntax"
    /\ pc = "failed"
    /\ \E j \in (idx + 1)..Len(doctree) : doctree[j].type = "ditaa"

\* C5: a call that finds a file at the computed output path returns the pair at once:
\* no launch attempt, no file created or changed, no directory created, the working
\* directory as it was.
C5_CacheHitFrame ==
    [][ (/\ pc = "resolve"
         /\ NextDitaa(doctree, idx) # 0
         /\ LET node == doctree[NextDitaa(doctree, idx)]
            IN  OutFullFn(EncodeUtf8(node.code), node.options) \in DOMAIN fs)
        => /\ fs' = fs
           /\ dirs' = dirs
           /\ cwd' = cwd
           /\ call'.done /\ call'.attempts = 0 /\ call'.spawned = 0
           /\ LET node == doctree[NextDitaa(doctree, idx)]
              IN  call'.result =
                      <<OutRelFn(EncodeUtf8(node.code), node.options),
                        OutFullFn(EncodeUtf8(node.code), node.options)>>
           /\ pc' = "resolve" ]_vars

\* C5 witness: a call returned on a cache hit, with the input file of that key on disk.
C5_Witness ==
    /\ call.done /\ call.hit
    /\ InFullFn(call.code, call.options) \in DOMAIN fs

\* C9: on a cache miss the output directory exists before the input file is written,
\* the input file holds the markup bytes before the launch, the launch is attempted
\* once and only once per call, from the output directory, with the command line
\* [executable] + global args + renderer options + [input name, output name].
C9_LaunchOrder ==
    /\ pc = "write" => DirName(frame.infullfn) \in dirs
    /\ pc \in {"chdir", "popen"} =>
           /\ frame.infullfn \in DOMAIN fs
           /\ fs[frame.infullfn] = frame.code
    /\ pc \in {"ensuredir", "write", "chdir", "popen"} => call.attempts = 0
    /\ call.attempts <= 1
    /\ (call.done /\ ~call.hit) => call.attempts = 1
    /\ call.attempts = 1 =>
           /\ call.dirSeen
           /\ call.inputSeen = call.code
           /\ call.launchCwd = <<outdir, imagedir>>
           /\ call.argv = <<config_ditaa>> \o config_ditaa_args \o call.options \o
                             <<InFName(call.code, call.options),
                               OutFName(call.code, call.options)>>

\* C9 witness: a cache-miss call with renderer options has ended after its launch,
\* by a broken-pipe or normal communication and a nonzero exit.
C9_Witness ==
    /\ call.done /\ ~call.hit /\ call.attempts = 1
    /\ call.options # <<>>
    /\ call.raised = "DitaaError"

\* C10: outside a render_ditaa call the working directory is the one the build
\* started in, whichever way the last call ended.
C10_CwdRestored ==
    pc \in {"resolve", "done", "failed"} => cwd = StartDir

\* ---- claims: the directive ------------------------------------------------------------------
\* a key that begins with the two characters "--"
IsRendererKey(k) == Len(k) >= 2 /\ k[1] = "-" /\ k[2] = "-"

C7_OptionPartition ==
    (lastRun.ran /\ lastRun.nodes[1].type = "ditaa") =>
        LET items == lastRun.items
            opts == lastRun.nodes[1].options
            img == lastRun.nodes[1].img_options
            R == {i \in 1..Len(items) : IsRendererKey(items[i][1])}
            Valued == {i \in R : items[i][2] # None}
        IN  /\ Len(opts) = Cardinality(R) + Cardinality(Valued)
            /\ \A i \in R :
                   /\ items[i][1] \notin DOMAIN img
                   /\ \E p \in 1..Len(opts) :
                          /\ opts[p] = items[i][1]
                          /\ IF i \in Valued
                             THEN p < Len(opts) /\ opts[p + 1] = items[i][2]
                             ELSE p = Len(opts) \/ \E j \in R : opts[p + 1] = items[j][1]
            /\ \A i \in (1..Len(items)) \ R :
                   /\ items[i][1] \in DOMAIN img
                   /\ img[items[i][1]] = items[i][2]
                   /\ \A p \in 1..Len(opts) : opts[p] # items[i][1]
            /\ DOMAIN img = {items[i][1] : i \in (1..Len(items)) \ R}

\* C7 witness: a directive with the value-taking renderer option --scale and the
\* image option scale produced a node.
C7_Witness ==
    /\ lastRun.ran
    /\ lastRun.nodes[1].type = "ditaa"
    /\ \E i, j \in 1..Len(lastRun.items) :
           lastRun.items[i][1] = OptScale /\ lastRun.items[j][1] = ImgScale

\* C8: running a directive that has both content and a file argument adds one
\* warning and no ditaa node, opens no file and registers no dependency.
C8_BothFormsRejected ==
    [][ (lastRun'.ran /\ nruns' = nruns + 1
            /\ lastRun'.arguments # <<>> /\ lastRun'.content # <<>>)
        => /\ doctree' = Append(doctree, system_message(WarnBoth))
           /\ reports' = Append(reports, WarnBoth)
           /\ opened' = opened
           /\ deps' = deps
           /\ lastRun'.opened = {} /\ lastRun'.deps = {} ]_vars

\* C8 witness: a directive with content lines and the name of a readable file was run.
C8_Witness ==
    /\ lastRun.ran
    /\ lastRun.arguments = <<FileGood>>
    /\ lastRun.content # <<>>

====
